---- MODULE Spec2Model ----
(***************************************************************************)
(* A model of the MS5611 barometer driver of src/src/lib.rs: the driver    *)
(* object (address, prom), the three operations reset, read_prom and read, *)
(* each split at its bus transactions, the PROM CRC of AN520 and the       *)
(* second-order compensation arithmetic in Rust's i32/i64/u32 types.       *)
(***************************************************************************)
EXTENDS Integers, Sequences, FiniteSets, TLC

(***************************************************************************)
(* Command bytes (lib.rs:4-6) and the oversampling levels (lib.rs:9-27).   *)
(***************************************************************************)
MS5611_RESET == 30

MS5611_PROM_READ == 160

MS5611_READ_ADC == 0

Osr256 == 64

Osr512 == 66

Osr1024 == 68

Osr2048 == 70

Osr4096 == 72

OversampleRatio == {Osr256, Osr512, Osr1024, Osr2048, Osr4096}

\* A variant of delay_ms that gives Osr2048 the delay of Osr1024.
delay_ms_repeated(osr) ==
    CASE osr = Osr256 -> 1
      [] osr = Osr512 -> 2
      [] osr = Osr1024 -> 3
      [] osr = Osr2048 -> 3
      [] osr = Osr4096 -> 10

delay_ms(osr) ==
    CASE osr = Osr256 -> 1
      [] osr = Osr512 -> 2
      [] osr = Osr1024 -> 3
      [] osr = Osr2048 -> 5
      [] osr = Osr4096 -> 10

\* The temperature channel's conversion command: (osr as u8) + 0x10.
TempChannelIncrement == 16

(***************************************************************************)
(* Bit operations on unsigned machine words of n bits.                     *)
(***************************************************************************)
\* Bit by bit.
RECURSIVE XorBits(_, _, _)
XorBits(a, b, n) ==
    IF n = 0 THEN 0
    ELSE (((a % 2) + (b % 2)) % 2) + 2 * XorBits(a \div 2, b \div 2, n - 1)

RECURSIVE AndBits(_, _, _)
AndBits(a, b, n) ==
    IF n = 0 THEN 0
    ELSE ((a % 2) * (b % 2)) + 2 * AndBits(a \div 2, b \div 2, n - 1)

\* The same on 4-bit digits, tabulated once.
XorNibble == [x \in 0..15 |-> [y \in 0..15 |-> XorBits(x, y, 4)]]

AndNibble == [x \in 0..15 |-> [y \in 0..15 |-> AndBits(x, y, 4)]]

\* a ^ b and a & b on the low n bits, four bits at a time.
RECURSIVE BitXor(_, _, _)
BitXor(a, b, n) ==
    IF n < 4 THEN XorBits(a, b, n)
    ELSE XorNibble[a % 16][b % 16] + 16 * BitXor(a \div 16, b \div 16, n - 4)

RECURSIVE BitAnd(_, _, _)
BitAnd(a, b, n) ==
    IF n < 4 THEN AndBits(a, b, n)
    ELSE AndNibble[a % 16][b % 16] + 16 * BitAnd(a \div 16, b \div 16, n - 4)

\* u16 << 1: the bit shifted out is lost.
Shl16(x) == (2 * x) % 65536

\* u16::from_be_bytes(buf)
U16FromBe(buf) == buf[1] * 256 + buf[2]

(***************************************************************************)
(* Arbitrary-precision integers: TLC's own integers are 32 bits wide, the  *)
(* driver computes in i64.  A magnitude is a little-endian sequence of     *)
(* 15-bit limbs without a leading zero limb; an integer is a sign and a    *)
(* magnitude, zero being [neg |-> FALSE, mag |-> <<>>].                    *)
(***************************************************************************)
LimbBits == 15

LimbBase == 2 ^ LimbBits

RECURSIVE MagNorm(_)
MagNorm(m) ==
    IF m = <<>> THEN <<>>
    ELSE IF m[Len(m)] = 0 THEN MagNorm(SubSeq(m, 1, Len(m) - 1))
    ELSE m

RECURSIVE MagOfNat(_)
MagOfNat(n) ==
    IF n = 0 THEN <<>> ELSE <<n % LimbBase>> \o MagOfNat(n \div LimbBase)

LimbAt(m, i) == IF i <= Len(m) THEN m[i] ELSE 0

RestOf(m) == IF m = <<>> THEN <<>> ELSE Tail(m)

RECURSIVE MagAddC(_, _, _)
MagAddC(a, b, c) ==
    IF a = <<>> /\ b = <<>> THEN (IF c = 0 THEN <<>> ELSE <<c>>)
    ELSE LET s == LimbAt(a, 1) + LimbAt(b, 1) + c
         IN  <<s % LimbBase>> \o MagAddC(RestOf(a), RestOf(b), s \div LimbBase)

MagAdd(a, b) == MagAddC(a, b, 0)

\* a - b for a >= b
RECURSIVE MagSubB(_, _, _)
MagSubB(a, b, br) ==
    IF a = <<>> THEN <<>>
    ELSE LET d == a[1] - LimbAt(b, 1) - br
         IN  <<(d + LimbBase) % LimbBase>>
                 \o MagSubB(Tail(a), RestOf(b), IF d < 0 THEN 1 ELSE 0)

MagSub(a, b) == MagNorm(MagSubB(a, b, 0))

\* -1, 0, 1 as a < b, a = b, a > b
RECURSIVE MagCmpFrom(_, _, _)
MagCmpFrom(a, b, i) ==
    IF i = 0 THEN 0
    ELSE IF a[i] < b[i] THEN -1
    ELSE IF a[i] > b[i] THEN 1
    ELSE MagCmpFrom(a, b, i - 1)

MagCmp(a, b) ==
    IF Len(a) < Len(b) THEN -1
    ELSE IF Len(a) > Len(b) THEN 1
    ELSE MagCmpFrom(a, b, Len(a))

RECURSIVE MagMulLimb(_, _, _)
MagMulLimb(a, k, c) ==
    IF a = <<>> THEN (IF c = 0 THEN <<>> ELSE <<c>>)
    ELSE LET p == a[1] * k + c
         IN  <<p % LimbBase>> \o MagMulLimb(Tail(a), k, p \div LimbBase)

RECURSIVE MagMul(_, _)
MagMul(a, b) ==
    IF a = <<>> \/ b = <<>> THEN <<>>
    ELSE LET hi == MagMul(a, Tail(b))
         IN  MagNorm(MagAdd(MagMulLimb(a, b[1], 0),
                            IF hi = <<>> THEN <<>> ELSE <<0>> \o hi))

\* 2^n
MagPow2(n) ==
    [i \in 1..((n \div LimbBits) + 1) |->
        IF i = (n \div LimbBits) + 1 THEN 2 ^ (n % LimbBits) ELSE 0]

\* floor(a / 2^n)
MagShr(a, n) ==
    LET q == n \div LimbBits
        r == n % LimbBits
        d == IF q >= Len(a) THEN <<>> ELSE SubSeq(a, q + 1, Len(a))
    IN  MagNorm([i \in 1..Len(d) |->
                    (d[i] \div (2 ^ r))
                    + (LimbAt(d, i + 1) % (2 ^ r)) * (2 ^ (LimbBits - r))])

MagShl(a, n) == MagMul(a, MagPow2(n))

\* a mod 2^n
MagLowBits(a, n) == MagSub(a, MagShl(MagShr(a, n), n))

Z(n) == [neg |-> n < 0, mag |-> MagOfNat(IF n < 0 THEN 0 - n ELSE n)]

ZMk(neg, mag) == [neg |-> neg /\ mag # <<>>, mag |-> mag]

ZNeg(x) == ZMk(~x.neg, x.mag)

ZAdd(x, y) ==
    IF x.neg = y.neg THEN ZMk(x.neg, MagAdd(x.mag, y.mag))
    ELSE IF MagCmp(x.mag, y.mag) >= 0 THEN ZMk(x.neg, MagSub(x.mag, y.mag))
    ELSE ZMk(y.neg, MagSub(y.mag, x.mag))

ZSub(x, y) == ZAdd(x, ZNeg(y))

ZMul(x, y) == ZMk(x.neg # y.neg, MagMul(x.mag, y.mag))

ZLt(x, y) ==
    IF x.neg # y.neg THEN x.neg
    ELSE IF x.neg THEN MagCmp(x.mag, y.mag) > 0
    ELSE MagCmp(x.mag, y.mag) < 0

ZLe(x, y) == ~ZLt(y, x)

\* x * 2^n
ZShl(x, n) == ZMk(x.neg, MagShl(x.mag, n))

\* The arithmetic (sign-preserving) right shift: floor(x / 2^n).
ZShr(x, n) ==
    IF ~x.neg THEN ZMk(FALSE, MagShr(x.mag, n))
    ELSE IF MagLowBits(x.mag, n) = <<>> THEN ZMk(TRUE, MagShr(x.mag, n))
    ELSE ZMk(TRUE, MagAdd(MagShr(x.mag, n), <<1>>))

ZPow2(n) == ZMk(FALSE, MagPow2(n))

\* x mod 2^w, in 0 .. 2^w - 1
ZModPow2(x, w) ==
    LET r == MagLowBits(x.mag, w)
    IN  IF ~x.neg \/ r = <<>> THEN ZMk(FALSE, r)
        ELSE ZMk(FALSE, MagSub(MagPow2(w), r))

\* Whether x is a value of the signed type of w bits.
FitsSigned(x, w) == ZLe(ZNeg(ZPow2(w - 1)), x) /\ ZLt(x, ZPow2(w - 1))

\* x reduced to the signed type of w bits (two's complement wrap-around).
WrapSigned(x, w) ==
    IF FitsSigned(x, w) THEN x
    ELSE IF ZLt(ZModPow2(x, w), ZPow2(w - 1)) THEN ZModPow2(x, w)
    ELSE ZSub(ZModPow2(x, w), ZPow2(w))

\* The value of a small integer (below 2^31 in magnitude) as a TLC integer.
RECURSIVE MagToNat(_)
MagToNat(m) == IF m = <<>> THEN 0 ELSE m[1] + LimbBase * MagToNat(Tail(m))

ZToInt(x) == IF x.neg THEN 0 - MagToNat(x.mag) ELSE MagToNat(x.mag)

(***************************************************************************)
(* The PROM CRC of AN520, as the nested functions of read_prom compute it. *)
(***************************************************************************)
CrcPolynomial == 12288

CrcTopBit == 32768

\* A variant of crc_round without the polynomial: the shift alone.
crc_round_shift_only(crc) == Shl16(crc)

\* One round of the inner loop (lib.rs:82-86).
crc_round(crc) ==
    IF BitAnd(crc, CrcTopBit, 16) > 0
    THEN BitXor(Shl16(crc), CrcPolynomial, 16)
    ELSE Shl16(crc)

RECURSIVE crc_rounds(_, _)
crc_rounds(crc, n) == IF n = 0 THEN crc ELSE crc_rounds(crc_round(crc), n - 1)

crc_accumulate_byte(crc, byte) == crc_rounds(BitXor(crc, byte, 16), 8)

crc_accumulate_buf2(crc, b) ==
    crc_accumulate_byte(crc_accumulate_byte(crc, b[1]), b[2])

\* A variant of crc_accumulate_last that feeds the CRC word's low byte as read.
crc_accumulate_last_whole(crc, b) == crc_accumulate_buf2(crc, b)

\* The last word (lib.rs:133-134): its high byte, then 0 for its low byte.
crc_accumulate_last(crc, b) ==
    crc_accumulate_byte(crc_accumulate_byte(crc, b[1]), 0)

\* crc_check >> 12 (lib.rs:136)
crc_final(crc) == crc \div 4096

\* The CRC a PROM holds: u16::from_be_bytes(buf) & 0xF (lib.rs:132)
crc_of_word(b) == BitAnd(U16FromBe(b), 15, 16)

(***************************************************************************)
(* The Prom struct (lib.rs:31-44) and the driver's Option<Prom>.           *)
(***************************************************************************)
ZeroProm ==
    [pressure_sensitivity |-> 0, pressure_offset |-> 0,
     temp_coef_pressure_sensitivity |-> 0, temp_coef_pressure_offset |-> 0,
     temp_ref |-> 0, temp_coef_temp |-> 0]

\* Option::None: a record of the same fields, told apart by `some`.
NoProm == [some |-> FALSE, val |-> ZeroProm]

SomeProm(p) == [some |-> TRUE, val |-> p]

\* The k-th PROM word (k = 0..7, read at MS5611_PROM_READ + 2k) stored into the
\* local Prom: words 1..6 are C1..C6, words 0 and 7 are not stored.
StoreWord(p, k, w) ==
    CASE k = 1 -> [p EXCEPT !.pressure_sensitivity = w]
      [] k = 2 -> [p EXCEPT !.pressure_offset = w]
      [] k = 3 -> [p EXCEPT !.temp_coef_pressure_sensitivity = w]
      [] k = 4 -> [p EXCEPT !.temp_coef_pressure_offset = w]
      [] k = 5 -> [p EXCEPT !.temp_ref = w]
      [] k = 6 -> [p EXCEPT !.temp_coef_temp = w]
      [] OTHER -> p

\* A variant of LastPromWord that stops at the word read at offset 12.
LastPromWordSix == 7 - 1

\* The index of the last PROM word read: the CRC word at MS5611_PROM_READ + 14.
LastPromWord == 7

\* The command byte of the k-th PROM read.
PromCommand(k) == MS5611_PROM_READ + 2 * k

(***************************************************************************)
(* The compensation arithmetic of read (lib.rs:158-198), in the types the  *)
(* code computes in.  Each step keeps its exact value (suffix _x) beside   *)
(* the value the type holds; `overflow` says some arithmetic result was    *)
(* outside its type, which panics in a build with overflow checks and      *)
(* wraps in one without.                                                   *)
(***************************************************************************)
\* i32::from_be_bytes(data)
I32FromBe(data) ==
    (IF data[1] >= 128 THEN data[1] - 256 ELSE data[1]) * 16777216
        + data[2] * 65536 + data[3] * 256 + data[4]

\* One arithmetic result x in the signed type of w bits: the value the type
\* holds, and whether x was outside the type.
Checked(x, w) == [v |-> WrapSigned(x, w), ovf |-> ~FitsSigned(x, w)]

\* The compensation values with field f set to the result r.
Step(c, f, r) == [c EXCEPT ![f] = r.v, !.overflow = @ \/ r.ovf]

\* The values at the start of the compensation: d1 and d2 as read.
CompStart(raw1, raw2) ==
    [d1 |-> Z(raw1), d2 |-> Z(raw2), dt |-> Z(0), tprod |-> Z(0),
     tcast |-> Z(0), temperature |-> Z(0), oprod |-> Z(0), offset |-> Z(0),
     sprod |-> Z(0), sens |-> Z(0), lt |-> Z(0), lsq |-> Z(0), l5 |-> Z(0),
     off2 |-> Z(0), sens2 |-> Z(0), vt |-> Z(0), vsq |-> Z(0), v7 |-> Z(0),
     v11 |-> Z(0), pprod |-> Z(0), pdiff |-> Z(0), pwide |-> Z(0),
     pressure |-> Z(0), pressure_u32 |-> Z(0),
     overflow |-> FALSE, truncated |-> FALSE]

\* let dt = d2 - ((prom.temp_ref as i64) << 8);  (lib.rs:168)
CompDt(p, c) ==
    Step(c, "dt", Checked(ZSub(c.d2, ZShl(Z(p.temp_ref), 8)), 64))

\* dt * (prom.temp_coef_temp as i64)  (lib.rs:171)
CompTProd(p, c) ==
    Step(c, "tprod", Checked(ZMul(c.dt, Z(p.temp_coef_temp)), 64))

\* (.. >> 23) as i32  (lib.rs:171): a cast keeps the low 32 bits.
CompTCast(c) ==
    [c EXCEPT !.tcast = WrapSigned(ZShr(c.tprod, 23), 32),
              !.truncated = @ \/ ~FitsSigned(ZShr(c.tprod, 23), 32)]

\* let temperature = 2000 + ..;  (lib.rs:171), an i32
CompTemperature(c) ==
    Step(c, "temperature", Checked(ZAdd(Z(2000), c.tcast), 32))

\* (prom.temp_coef_pressure_offset as i64) * dt  (lib.rs:173)
CompOProd(p, c) ==
    Step(c, "oprod", Checked(ZMul(Z(p.temp_coef_pressure_offset), c.dt), 64))

\* A variant of CompOffset that shifts pressure_offset by 15, as sens is.
CompOffsetShift15(p, c) ==
    Step(c, "offset",
         Checked(ZAdd(ZShl(Z(p.pressure_offset), 15), ZShr(c.oprod, 7)), 64))

\* let mut offset = ((prom.pressure_offset as i64) << 16) + (.. >> 7);
CompOffset(p, c) ==
    Step(c, "offset",
         Checked(ZAdd(ZShl(Z(p.pressure_offset), 16), ZShr(c.oprod, 7)), 64))

\* (prom.temp_coef_pressure_sensitivity as i64) * dt  (lib.rs:175)
CompSProd(p, c) ==
    Step(c, "sprod",
         Checked(ZMul(Z(p.temp_coef_pressure_sensitivity), c.dt), 64))

\* let mut sens = ((prom.pressure_sensitivity as i64) << 15) + (.. >> 8);
CompSens(p, c) ==
    Step(c, "sens",
         Checked(ZAdd(ZShl(Z(p.pressure_sensitivity), 15), ZShr(c.sprod, 8)),
                 64))

\* The type (temperature - 2000).pow(2) and 5 * .. are computed in
\* (lib.rs:182): temperature is an i32, and so are they.
LowTempBits == 32

\* temperature - 2000
CompLowDiff(c) ==
    Step(c, "lt", Checked(ZSub(c.temperature, Z(2000)), LowTempBits))

\* (temperature - 2000).pow(2)
CompLowSquare(c) == Step(c, "lsq", Checked(ZMul(c.lt, c.lt), LowTempBits))

\* 5 * ..
CompLowTimes5(c) == Step(c, "l5", Checked(ZMul(Z(5), c.lsq), LowTempBits))

\* off2 = (.. >> 1) as i64; sens2 = off2 >> 1;  (lib.rs:182-183)
CompLowAssign(c) ==
    [c EXCEPT !.off2 = ZShr(c.l5, 1), !.sens2 = ZShr(ZShr(c.l5, 1), 1)]

\* if temperature < 2000 { .. }  (lib.rs:181-184)
LowTemperature(c) == ZLt(c.temperature, Z(2000))

CompLow(c) ==
    IF LowTemperature(c)
    THEN CompLowAssign(CompLowTimes5(CompLowSquare(CompLowDiff(c))))
    ELSE c

\* temperature as i64 + 1500
CompVeryLowSum(c) == Step(c, "vt", Checked(ZAdd(c.temperature, Z(1500)), 64))

\* (temperature as i64 + 1500).pow(2)
CompVeryLowSquare(c) == Step(c, "vsq", Checked(ZMul(c.vt, c.vt), 64))

\* 7 * ..
CompVeryLowTimes7(c) == Step(c, "v7", Checked(ZMul(Z(7), c.vsq), 64))

\* off2 += ..;  (lib.rs:188)
CompVeryLowOff2(c) == Step(c, "off2", Checked(ZAdd(c.off2, c.v7), 64))

\* 11 * ..
CompVeryLowTimes11(c) == Step(c, "v11", Checked(ZMul(Z(11), c.vsq), 64))

\* sens2 += (.. >> 1) as i64;  (lib.rs:189)
CompVeryLowSens2(c) ==
    Step(c, "sens2", Checked(ZAdd(c.sens2, ZShr(c.v11, 1)), 64))

\* if temperature < -1500 { .. }  (lib.rs:187-190)
VeryLowTemperature(c) == ZLt(c.temperature, Z(-1500))

CompVeryLow(c) ==
    IF VeryLowTemperature(c)
    THEN CompVeryLowSens2(CompVeryLowTimes11(CompVeryLowOff2(
             CompVeryLowTimes7(CompVeryLowSquare(CompVeryLowSum(c))))))
    ELSE c

\* offset -= off2;  (lib.rs:192)
CompOffsetSub(c) == Step(c, "offset", Checked(ZSub(c.offset, c.off2), 64))

\* sens -= sens2;  (lib.rs:193)
CompSensSub(c) == Step(c, "sens", Checked(ZSub(c.sens, c.sens2), 64))

\* (d1 as i64) * sens  (lib.rs:196)
CompPProd(c) == Step(c, "pprod", Checked(ZMul(c.d1, c.sens), 64))

\* (.. >> 21) - offset
CompPDiff(c) ==
    Step(c, "pdiff", Checked(ZSub(ZShr(c.pprod, 21), c.offset), 64))

\* let pressure: i32 = (.. >> 15) as i32;  (lib.rs:196)
CompPressure(c) ==
    [c EXCEPT !.pwide = ZShr(c.pdiff, 15),
              !.pressure = WrapSigned(ZShr(c.pdiff, 15), 32),
              !.truncated = @ \/ ~FitsSigned(ZShr(c.pdiff, 15), 32)]

\* pressure as u32  (lib.rs:198): the same 32 bits read as unsigned.
AsU32(x) == ZModPow2(x, 32)

CompReturn(c) == [c EXCEPT !.pressure_u32 = AsU32(c.pressure)]

\* lib.rs:168-175: dt, temperature, offset and sens.
CompFirstOrder(p, raw1, raw2) ==
    CompSens(p, CompSProd(p, CompOffset(p, CompOProd(p,
        CompTemperature(CompTCast(CompTProd(p,
            CompDt(p, CompStart(raw1, raw2)))))))))

\* lib.rs:177-193: off2 and sens2, and their subtraction.
CompSecondOrder(c) == CompSensSub(CompOffsetSub(CompVeryLow(CompLow(c))))

\* lib.rs:196-198: the pressure.
CompResult(c) == CompReturn(CompPressure(CompPDiff(CompPProd(c))))

\* lib.rs:168-198 in order.
Compensate(p, raw1, raw2) ==
    CompResult(CompSecondOrder(CompFirstOrder(p, raw1, raw2)))

NoComp == CompStart(0, 0)

(***************************************************************************)
(* What the bus and the caller may supply.                                 *)
(***************************************************************************)
\* The number of distinct transport errors (I2C::Error values) of the model.
MaxErrorCode == 2

TransportErrors == 1..MaxErrorCode

\* The result of one bus transaction: 0 is Ok(()), else Err(code).
BusOk == 0

\* The 7-bit device addresses given to Ms5611::new: 0x76 and 0x77.
Addresses == {118, 119}

\* The two bytes the device may answer to the k-th PROM read: the reserved
\* word, C1..C6 (the datasheet's example values, and the largest value for C5
\* and C6), and a CRC word with every value of its low nibble, the other
\* twelve bits clear or set.
PromWords(k) ==
    CASE k = 0 -> {<<0, 0>>, <<18, 52>>}
      [] k = 1 -> {<<156, 191>>}
      [] k = 2 -> {<<144, 60>>}
      [] k = 3 -> {<<91, 21>>}
      [] k = 4 -> {<<90, 242>>}
      [] k = 5 -> {<<130, 184>>, <<255, 255>>}
      [] k = 6 -> {<<110, 152>>, <<255, 255>>}
      [] k = 7 -> {<<0, l>> : l \in 0..15} \cup {<<171, l>> : l \in 240..255}

\* The three bytes the device may answer to an ADC read.
AdcSamples ==
    {<<0, 0, 0>>, <<138, 162, 26>>, <<130, 193, 62>>, <<130, 184, 0>>,
     <<130, 183, 255>>, <<114, 229, 36>>, <<114, 229, 35>>, <<255, 255, 255>>}

(***************************************************************************)
(* The state.                                                              *)
(***************************************************************************)
VARIABLES
    address,          \* Ms5611.address
    prom,             \* Ms5611.prom: Option<Prom>
    overflow_checks,  \* the build: arithmetic overflow panics (debug) or wraps
    pc,               \* where the running call stands; "idle" between calls
    step,             \* read_prom: the PROM word in hand; read: the channel
    buf,              \* read_prom's buf: [u8; 2]
    local_prom,       \* read_prom's local `prom`
    crc_check,        \* read_prom's crc_check: u16
    osr,              \* read's osr argument
    data,             \* read's data: [u8; 4]
    d1,               \* read's d1
    bus,              \* what the running (or last) call did on the bus and
                      \* the delay function, in order
    crc_fed,          \* the bytes the running (or last) call passed to
                      \* crc_accumulate_byte, in order
    ret,              \* what the last call returned
    comp,             \* the compensation values of the last completed read
    retry             \* the running or last call is a read_prom begun right
                      \* after a read_prom that returned a transport error

vars == <<address, prom, overflow_checks, pc, step, buf, local_prom,
          crc_check, osr, data, d1, bus, crc_fed, ret, comp, retry>>

locals == <<step, buf, local_prom, crc_check, osr, data, d1>>

\* A variant of Event that addresses every transaction to 0x76.
EventAtDefaultAddress(op, bytes, n, res) ==
    [op |-> op, addr |-> 118, bytes |-> bytes, n |-> n, res |-> res]

\* One event of the bus log.  n is the length asked of a read, or the
\* milliseconds of a delay; res is the transaction's result.
Event(op, bytes, n, res) ==
    [op |-> op, addr |-> address, bytes |-> bytes, n |-> n, res |-> res]

WriteEvent(byte, res) == Event("write", <<byte>>, 0, res)

ReadEvent(bytes, n, res) == Event("read", bytes, n, res)

DelayEvent(ms) == Event("delay", <<>>, ms, BusOk)

\* A call and its result: arg is read's osr (0 for the other calls), kind is
\* "running" until the call ends, then "Ok", "Err" (with err) or "Panic".
Return(call, arg, kind, err, pressure, temperature) ==
    [call |-> call, arg |-> arg, kind |-> kind, err |-> err,
     pressure |-> pressure, temperature |-> temperature]

NoReturn == Return("none", 0, "none", 0, Z(0), Z(0))

Running(call, arg) == Return(call, arg, "running", 0, Z(0), Z(0))

\* The locals of a call that is not running.
LocalsCleared ==
    /\ step' = 0
    /\ buf' = <<0, 0>>
    /\ local_prom' = ZeroProm
    /\ crc_check' = 0
    /\ osr' = Osr256
    /\ data' = <<0, 0, 0, 0>>
    /\ d1' = 0

\* A variant of ReturnErr that hides the error behind a placeholder result.
ReturnErrSwallowed(call, e) ==
    /\ pc' = "idle"
    /\ ret' = Return(call, ret.arg, "Ok", 0, Z(0), Z(0))
    /\ LocalsCleared

\* `?` on a failed transaction: the call returns Err(e) at once.
ReturnErr(call, e) ==
    /\ pc' = "idle"
    /\ ret' = Return(call, ret.arg, "Err", e, Z(0), Z(0))
    /\ LocalsCleared

Init ==
    /\ address \in Addresses
    /\ prom = NoProm
    /\ overflow_checks \in BOOLEAN
    /\ pc = "idle"
    /\ step = 0
    /\ buf = <<0, 0>>
    /\ local_prom = ZeroProm
    /\ crc_check = 0
    /\ osr = Osr256
    /\ data = <<0, 0, 0, 0>>
    /\ d1 = 0
    /\ bus = <<>>
    /\ crc_fed = <<>>
    /\ ret = NoReturn
    /\ comp = NoComp
    /\ retry = FALSE

(***************************************************************************)
(* reset (lib.rs:61-63): one write, whose result is returned.              *)
(***************************************************************************)
\* A variant of reset that also drops the coefficients.
reset_forgetting ==
    /\ pc = "idle"
    /\ \E r \in {BusOk} \cup TransportErrors :
          /\ bus' = <<WriteEvent(MS5611_RESET, r)>>
          /\ ret' = Return("reset", 0, IF r = BusOk THEN "Ok" ELSE "Err", r,
                           Z(0), Z(0))
    /\ prom' = NoProm
    /\ crc_fed' = <<>>
    /\ comp' = NoComp
    /\ retry' = FALSE
    /\ UNCHANGED <<address, overflow_checks, pc, locals>>

reset ==
    /\ pc = "idle"
    /\ \E r \in {BusOk} \cup TransportErrors :
          /\ bus' = <<WriteEvent(MS5611_RESET, r)>>
          /\ ret' = Return("reset", 0, IF r = BusOk THEN "Ok" ELSE "Err", r,
                           Z(0), Z(0))
    /\ crc_fed' = <<>>
    /\ comp' = NoComp
    /\ retry' = FALSE
    /\ UNCHANGED <<address, prom, overflow_checks, pc, locals>>

(***************************************************************************)
(* read_prom (lib.rs:65-145).                                              *)
(***************************************************************************)
\* A variant of read_prom_begin whose checksum register is not cleared when
\* the call before was a load that failed.
read_prom_begin_carrying ==
    /\ pc = "idle"
    /\ pc' = "prom_write"
    /\ step' = 0
    /\ buf' = <<0, 0>>
    /\ local_prom' = ZeroProm
    /\ crc_check' =
           IF ret.call = "read_prom" /\ ret.kind = "Err" THEN CrcTopBit ELSE 0
    /\ bus' = <<>>
    /\ crc_fed' = <<>>
    /\ ret' = Running("read_prom", 0)
    /\ comp' = NoComp
    /\ retry' = (ret.call = "read_prom" /\ ret.kind = "Err")
    /\ UNCHANGED <<address, prom, overflow_checks, osr, data, d1>>

\* The call and its locals (lib.rs:66-76).
read_prom_begin ==
    /\ pc = "idle"
    /\ pc' = "prom_write"
    /\ step' = 0
    /\ buf' = <<0, 0>>
    /\ local_prom' = ZeroProm
    /\ crc_check' = 0
    /\ bus' = <<>>
    /\ crc_fed' = <<>>
    /\ ret' = Running("read_prom", 0)
    /\ comp' = NoComp
    /\ retry' = (ret.call = "read_prom" /\ ret.kind = "Err")
    /\ UNCHANGED <<address, prom, overflow_checks, osr, data, d1>>

\* self.i2c.write(self.address, &[MS5611_PROM_READ + 2k])?
prom_write ==
    /\ pc = "prom_write"
    /\ \E r \in {BusOk} \cup TransportErrors :
          /\ bus' = Append(bus, WriteEvent(PromCommand(step), r))
          /\ IF r = BusOk
             THEN /\ pc' = "prom_read"
                  /\ UNCHANGED <<ret, locals>>
             ELSE ReturnErr("read_prom", r)
    /\ UNCHANGED <<address, prom, overflow_checks, crc_fed, comp, retry>>

\* A variant of prom_finish that stores the words read before it compares
\* the checksums.
prom_finish_storing_first(b) ==
    LET crc == crc_of_word(b)
        check == crc_final(crc_accumulate_last(crc_check, b))
    IN  /\ prom' = SomeProm(local_prom)
        /\ crc_fed' = crc_fed \o <<b[1], 0>>
        /\ LocalsCleared
        /\ IF crc # check
           THEN /\ pc' = "panicked"
                /\ ret' = Return("read_prom", 0, "Panic", 0, Z(0), Z(0))
           ELSE /\ pc' = "idle"
                /\ ret' = Return("read_prom", 0, "Ok", 0, Z(0), Z(0))

\* The end of read_prom (lib.rs:132-144), the CRC word being in b.
prom_finish(b) ==
    LET crc == crc_of_word(b)
        check == crc_final(crc_accumulate_last(crc_check, b))
    IN  IF crc # check
        THEN \* panic!("PROM CRC did not match")
             /\ pc' = "panicked"
             /\ ret' = Return("read_prom", 0, "Panic", 0, Z(0), Z(0))
             /\ crc_fed' = crc_fed \o <<b[1], 0>>
             /\ UNCHANGED prom
             /\ LocalsCleared
        ELSE /\ prom' = SomeProm(local_prom)
             /\ pc' = "idle"
             /\ ret' = Return("read_prom", 0, "Ok", 0, Z(0), Z(0))
             /\ crc_fed' = crc_fed \o <<b[1], 0>>
             /\ LocalsCleared

\* self.i2c.read(self.address, &mut buf)? and what follows it up to the next
\* write: the word stored and fed to the CRC.
prom_read ==
    /\ pc = "prom_read"
    /\ \/ \E e \in TransportErrors :
             /\ bus' = Append(bus, ReadEvent(<<>>, 2, e))
             /\ ReturnErr("read_prom", e)
             /\ UNCHANGED <<prom, crc_fed>>
       \/ \E b \in PromWords(step) :
             /\ bus' = Append(bus, ReadEvent(b, 2, BusOk))
             /\ IF step = LastPromWord
                THEN prom_finish(b)
                ELSE /\ buf' = b
                     /\ local_prom' = StoreWord(local_prom, step, U16FromBe(b))
                     /\ crc_check' = crc_accumulate_buf2(crc_check, b)
                     /\ crc_fed' = crc_fed \o b
                     /\ step' = step + 1
                     /\ pc' = "prom_write"
                     /\ UNCHANGED <<prom, ret, osr, data, d1>>
    /\ UNCHANGED <<address, overflow_checks, comp, retry>>

(***************************************************************************)
(* read (lib.rs:147-199).                                                  *)
(***************************************************************************)
\* What read returns when the driver holds no Prom (lib.rs:148-150).
UncalibratedReturn(o) == Return("read", o, "Ok", 0, Z(0), Z(0))

\* A variant of read_begin without the guard: the conversion is started
\* whether or not the driver holds a Prom.
read_begin_unguarded ==
    /\ pc = "idle"
    /\ \E o \in OversampleRatio :
          /\ pc' = "conv_write"
          /\ step' = 1
          /\ osr' = o
          /\ data' = <<0, 0, 0, 0>>
          /\ ret' = Running("read", o)
          /\ UNCHANGED <<buf, local_prom, crc_check, d1>>
    /\ bus' = <<>>
    /\ crc_fed' = <<>>
    /\ comp' = NoComp
    /\ retry' = FALSE
    /\ UNCHANGED <<address, prom, overflow_checks>>

\* The call, its guard and its locals (lib.rs:147-152).
read_begin ==
    /\ pc = "idle"
    /\ \E o \in OversampleRatio :
          IF ~prom.some
          THEN /\ ret' = UncalibratedReturn(o)
               /\ UNCHANGED <<pc, locals>>
          ELSE /\ pc' = "conv_write"
               /\ step' = 1
               /\ osr' = o
               /\ data' = <<0, 0, 0, 0>>
               /\ ret' = Running("read", o)
               /\ UNCHANGED <<buf, local_prom, crc_check, d1>>
    /\ bus' = <<>>
    /\ crc_fed' = <<>>
    /\ comp' = NoComp
    /\ retry' = FALSE
    /\ UNCHANGED <<address, prom, overflow_checks>>

\* A variant of ConvCommand that starts the pressure conversion twice.
ConvCommandSameChannel(o, channel) == o

\* The conversion command of a channel: osr as u8, plus 0x10 for temperature.
ConvCommand(o, channel) ==
    IF channel = 1 THEN o ELSE o + TempChannelIncrement

\* self.i2c.write(self.address, &[osr as u8])?  (lib.rs:154, 160)
conv_write ==
    /\ pc = "conv_write"
    /\ \E r \in {BusOk} \cup TransportErrors :
          /\ bus' = Append(bus, WriteEvent(ConvCommand(osr, step), r))
          /\ IF r = BusOk
             THEN /\ pc' = "delay"
                  /\ UNCHANGED <<ret, locals>>
             ELSE ReturnErr("read", r)
    /\ UNCHANGED <<address, prom, overflow_checks, crc_fed, comp, retry>>

\* delay_fn(osr.delay_ms())  (lib.rs:155, 161)
delay ==
    /\ pc = "delay"
    /\ bus' = Append(bus, DelayEvent(delay_ms(osr)))
    /\ pc' = "adc_write"
    /\ UNCHANGED <<address, prom, overflow_checks, crc_fed, ret, comp, retry,
                   locals>>

\* self.i2c.write(self.address, &[MS5611_READ_ADC])?  (lib.rs:156, 162)
adc_write ==
    /\ pc = "adc_write"
    /\ \E r \in {BusOk} \cup TransportErrors :
          /\ bus' = Append(bus, WriteEvent(MS5611_READ_ADC, r))
          /\ IF r = BusOk
             THEN /\ pc' = "adc_read"
                  /\ UNCHANGED <<ret, locals>>
             ELSE ReturnErr("read", r)
    /\ UNCHANGED <<address, prom, overflow_checks, crc_fed, comp, retry>>

\* The end of read (lib.rs:166-198), both raw values being known.
read_finish(raw1, raw2) ==
    LET c == Compensate(prom.val, raw1, raw2)
    IN  /\ comp' = c
        /\ LocalsCleared
        /\ IF c.overflow /\ overflow_checks
           THEN \* "attempt to multiply with overflow"
                /\ pc' = "panicked"
                /\ ret' = Return("read", ret.arg, "Panic", 0, Z(0), Z(0))
           ELSE /\ pc' = "idle"
                /\ ret' = Return("read", ret.arg, "Ok", 0,
                                 c.pressure_u32, c.temperature)

\* A variant of FillData that appends the bytes read to those data holds.
FillDataShifting(d, b) == <<d[4], b[1], b[2], b[3]>>

\* data after a read into data[1..4]: data[0] stays, the rest is what was read.
FillData(d, b) == <<d[1], b[1], b[2], b[3]>>

\* self.i2c.read(self.address, &mut data[1..4])? and what follows it up to the
\* next write (lib.rs:157-158, 163-164).
adc_read ==
    /\ pc = "adc_read"
    /\ \/ \E e \in TransportErrors :
             /\ bus' = Append(bus, ReadEvent(<<>>, 3, e))
             /\ ReturnErr("read", e)
             /\ UNCHANGED comp
       \/ \E b \in AdcSamples :
             /\ bus' = Append(bus, ReadEvent(b, 3, BusOk))
             /\ IF step = 1
                THEN /\ data' = FillData(data, b)
                     /\ d1' = I32FromBe(FillData(data, b))
                     /\ step' = 2
                     /\ pc' = "conv_write"
                     /\ UNCHANGED <<ret, comp, buf, local_prom, crc_check, osr>>
                ELSE read_finish(d1, I32FromBe(FillData(data, b)))
    /\ UNCHANGED <<address, prom, overflow_checks, crc_fed, retry>>

Next ==
    \/ reset
    \/ read_prom_begin
    \/ prom_write
    \/ prom_read
    \/ read_begin
    \/ conv_write
    \/ delay
    \/ adc_write
    \/ adc_read

Spec == Init /\ [][Next]_vars

(***************************************************************************)
(* Reading the bus log of a call.                                          *)
(***************************************************************************)
\* No transaction of the log failed.
NoTransportError(log) == \A i \in 1..Len(log) : log[i].res = BusOk

\* The bytes the reads of the log returned, in read order.
RECURSIVE ImageBytes(_)
ImageBytes(log) ==
    IF log = <<>> THEN <<>>
    ELSE (IF log[1].op = "read" THEN log[1].bytes ELSE <<>>)
             \o ImageBytes(Tail(log))

\* What an event asked of the bus or the delay function, its result aside.
Shape(e) ==
    [op |-> e.op, bytes |-> IF e.op = "write" THEN e.bytes ELSE <<>>, n |-> e.n]

WriteShape(byte) == [op |-> "write", bytes |-> <<byte>>, n |-> 0]

ReadShape(n) == [op |-> "read", bytes |-> <<>>, n |-> n]

DelayShape(ms) == [op |-> "delay", bytes |-> <<>>, n |-> ms]

\* A load that ended with every transaction done: it returned Ok or panicked.
LoadCompleted == ret.call = "read_prom" /\ ret.kind \in {"Ok", "Panic"}

\* A measurement on a calibrated driver that went through the compensation.
ReadCompensated ==
    ret.call = "read" /\ ret.kind \in {"Ok", "Panic"} /\ prom.some

(***************************************************************************)
(* The reference checksum of the specification, on the bytes in read order.*)
(***************************************************************************)
\* One shift left modulo 2^16, XOR-ing 0x3000 when the bit shifted out was 1.
RefShift(reg) ==
    IF reg >= 32768 THEN BitXor((2 * reg) % 65536, 12288, 16) ELSE 2 * reg

\* The register is a 16-bit value at every step.
RECURSIVE RefShifts(_, _)
RefShifts(reg, n) ==
    IF n = 0 \/ reg \notin 0..65535 THEN reg
    ELSE RefShifts(RefShift(reg), n - 1)

\* XOR the byte into the low byte of the register, then shift 8 times.
RefByte(reg, byte) ==
    RefShifts(reg - (reg % 256) + BitXor(reg % 256, byte, 8), 8)

RECURSIVE RefFold(_, _)
RefFold(bytes, reg) ==
    IF bytes = <<>> \/ reg \notin 0..65535 THEN reg
    ELSE RefFold(Tail(bytes), RefByte(reg, bytes[1]))

\* The checksum word's low byte is the last byte read.
RefChecksum(img) == RefFold([img EXCEPT ![Len(img)] = 0], 0) \div 4096

\* The checksum the image holds: the low 4 bits of the checksum word.
HeldChecksum(img) == img[Len(img)] % 16

\* C1..C6 as the big-endian words 1..6 of the image (word 0 is reserved).
CoefficientsOf(img) ==
    [pressure_sensitivity |-> img[3] * 256 + img[4],
     pressure_offset |-> img[5] * 256 + img[6],
     temp_coef_pressure_sensitivity |-> img[7] * 256 + img[8],
     temp_coef_pressure_offset |-> img[9] * 256 + img[10],
     temp_ref |-> img[11] * 256 + img[12],
     temp_coef_temp |-> img[13] * 256 + img[14]]

(***************************************************************************)
(* The claims.                                                             *)
(***************************************************************************)

\* C1: while no load has yet succeeded (the driver holds no coefficients),
\* every measurement call is refused with a NotCalibrated error; it never
\* returns a successful result carrying a placeholder such as (0, 0).
\* The code returns Ok((0, 0)): this statement is violated.
C1_UncalibratedReadRefused ==
    (ret.call = "read" /\ ~prom.some) =>
        ret.kind = "Err"

\* C2: when all bus transactions of a load succeed but the computed checksum
\* differs from the low 4 bits of the checksum word, the load returns an
\* error value to its caller, who keeps control; the program is not
\* terminated.  The code panics: this statement is violated.
C2_ChecksumMismatchReturnsError ==
    (/\ ret.call = "read_prom"
     /\ ret.kind # "running"
     /\ NoTransportError(bus)
     /\ HeldChecksum(ImageBytes(bus)) # RefChecksum(ImageBytes(bus))) =>
        (ret.kind = "Err" /\ pc # "panicked")

\* C3: for every calibration memory image the bus returns with no transport
\* error, the load succeeds and stores the image's coefficients if and only
\* if the low 4 bits of the checksum word equal the reference checksum.
C3_LoadSucceedsIffChecksumMatches ==
    (ret.call = "read_prom" /\ ret.kind # "running" /\ NoTransportError(bus)) =>
        /\ (ret.kind = "Ok") <=>
               (HeldChecksum(ImageBytes(bus)) = RefChecksum(ImageBytes(bus)))
        /\ ret.kind = "Ok" => prom = SomeProm(CoefficientsOf(ImageBytes(bus)))

\* A load accepted an image whose checksum nibble is not 0 and whose
\* checksum word has bits set above the nibble.
C3_Witness ==
    /\ ret.call = "read_prom"
    /\ ret.kind = "Ok"
    /\ NoTransportError(bus)
    /\ prom.some
    /\ HeldChecksum(ImageBytes(bus)) # 0
    /\ ImageBytes(bus)[16] >= 16

\* C4: after any load that does not succeed (a transport error at any of its
\* transactions, or a checksum mismatch) the driver holds no coefficients,
\* also when an earlier load had succeeded.  The code leaves the earlier
\* coefficients in place: this statement is violated.
C4_FailedLoadLeavesUninitialized ==
    (ret.call = "read_prom" /\ ret.kind \in {"Err", "Panic"}) => ~prom.some

\* C5: if a bus write or read inside a measurement on a calibrated driver
\* fails, the measurement returns exactly that transport error and no
\* pressure or temperature, and the failing transaction is the last event of
\* the call: no further bus transaction or delay call follows it.
C5_ReadFailsWithTheTransportError ==
    (ret.call = "read" /\ prom.some) =>
        \A i \in 1..Len(bus) :
            bus[i].res # BusOk =>
                /\ i = Len(bus)
                /\ pc = "idle"
                /\ ret.kind = "Err"
                /\ ret.err = bus[i].res
                /\ ret.pressure = Z(0)
                /\ ret.temperature = Z(0)

\* A measurement that had read the pressure failed at the temperature read.
C5_Witness ==
    /\ ret.call = "read"
    /\ prom.some
    /\ ret.kind = "Err"
    /\ Len(bus) = 8
    /\ bus[4].op = "read" /\ bus[4].res = BusOk /\ bus[4].bytes # <<0, 0, 0>>
    /\ bus[8].op = "read" /\ bus[8].res = ret.err

\* The events of a measurement with oversampling byte o that runs to its end.
ExpectedRead(o) ==
    <<WriteShape(o), DelayShape(delay_ms(o)), WriteShape(0), ReadShape(3),
      WriteShape(o + 16), DelayShape(delay_ms(o)), WriteShape(0), ReadShape(3)>>

\* C6: a measurement on a calibrated driver that completes without transport
\* error does exactly: write osr, delay osr.delay_ms(), write 0x00, read 3
\* bytes, write osr + 0x10, delay osr.delay_ms(), write 0x00, read 3 bytes;
\* and in every prefix of a measurement the ADC-read command is written only
\* right after the delay call that follows a successful conversion-start
\* write of that channel.
C6_ReadSequence ==
    (ret.call = "read" /\ prom.some) =>
        /\ ret.kind \in {"Ok", "Panic"} =>
               [i \in 1..Len(bus) |-> Shape(bus[i])] = ExpectedRead(ret.arg)
        /\ \A i \in 1..Len(bus) :
               Shape(bus[i]) = WriteShape(0) =>
                   /\ i \in {3, 7}
                   /\ Shape(bus[i - 1]) = DelayShape(delay_ms(ret.arg))
                   /\ Shape(bus[i - 2]) =
                          WriteShape(IF i = 3 THEN ret.arg ELSE ret.arg + 16)
                   /\ bus[i - 2].res = BusOk
                   /\ \A j \in 1..(i - 3) : Shape(bus[j]) # Shape(bus[i - 2])

\* A measurement at the highest oversampling level ran to its end.
C6_Witness ==
    /\ ret.call = "read"
    /\ prom.some
    /\ ret.kind = "Ok"
    /\ ret.arg = Osr4096
    /\ Len(bus) = 8

\* C7: in the compensation of a measurement no arithmetic result is outside
\* the type it is computed in and no cast drops bits; in particular
\* 5 * (temperature - 2000)^2 does not overflow.  The code computes that term
\* in i32: this statement is violated.
C7_NoIntermediateOverflow ==
    ReadCompensated => (~comp.overflow /\ ~comp.truncated)

\* The low-temperature values of the specification, in exact integers.
ExactLowOff2(t) ==
    ZShr(ZMul(Z(5), ZMul(ZSub(t, Z(2000)), ZSub(t, Z(2000)))), 1)

ExactVeryLowSquare(t) == ZMul(ZAdd(t, Z(1500)), ZAdd(t, Z(1500)))

\* C8: the second-order corrections by temperature: 2000 or more, offset2 and
\* sensitivity2 are 0; in -1500..1999, offset2 = (5*(t-2000)^2) >> 1 and
\* sensitivity2 = offset2 >> 1; -1501 or less, 7*(t+1500)^2 and
\* (11*(t+1500)^2) >> 1 are added on top of those.  Where the i32 term of C7
\* wraps, the code's offset2 is another number: this statement is violated.
C8_SecondOrderBranches ==
    (ret.call = "read" /\ ret.kind = "Ok" /\ prom.some) =>
        IF ZLe(Z(2000), comp.temperature)
        THEN comp.off2 = Z(0) /\ comp.sens2 = Z(0)
        ELSE IF ZLe(Z(-1500), comp.temperature)
        THEN /\ comp.off2 = ExactLowOff2(comp.temperature)
             /\ comp.sens2 = ZShr(ExactLowOff2(comp.temperature), 1)
        ELSE /\ comp.off2 =
                    ZAdd(ExactLowOff2(comp.temperature),
                         ZMul(Z(7), ExactVeryLowSquare(comp.temperature)))
             /\ comp.sens2 =
                    ZAdd(ZShr(ExactLowOff2(comp.temperature), 1),
                         ZShr(ZMul(Z(11),
                                   ExactVeryLowSquare(comp.temperature)), 1))

\* Step 8 of the specification on the values the code holds.
ExactPressure(c) == ZShr(ZSub(ZShr(ZMul(c.d1, c.sens), 21), c.offset), 15)

\* C9: the pressure a measurement returns is the signed integer
\* (((raw_pressure * sensitivity) >> 21) - offset) >> 15, also when that is
\* negative.  The code returns it as u32: this statement is violated.
C9_PressureIsSigned ==
    (ret.call = "read" /\ ret.kind = "Ok" /\ prom.some) =>
        ret.pressure = ExactPressure(comp)

\* C10 as it stands: a load with no transport error issues exactly seven
\* read transactions, each a one-byte command write followed by a read of 2
\* bytes, and feeds exactly the 14 bytes of those seven words to the checksum.
\* The code reads eight words: this statement is violated.
C10_SevenWordLoad ==
    LoadCompleted =>
        /\ Len(bus) = 14
        /\ \A k \in 0..6 :
               /\ bus[2 * k + 1].op = "write" /\ Len(bus[2 * k + 1].bytes) = 1
               /\ bus[2 * k + 2].op = "read" /\ bus[2 * k + 2].n = 2
        /\ Len(crc_fed) = 14

\* C10 amended: a load with no transport error issues exactly eight read
\* transactions, the k-th (k = 0..7) a write of the one byte 0xA0 + 2k followed
\* by a read of exactly 2 bytes, and feeds exactly the 16 bytes of those eight
\* words to the checksum, in read order, the last byte taken as 0.
C10_EightWordLoad ==
    LoadCompleted =>
        /\ Len(bus) = 16
        /\ \A k \in 0..7 :
               /\ Shape(bus[2 * k + 1]) = WriteShape(160 + 2 * k)
               /\ Shape(bus[2 * k + 2]) = ReadShape(2)
               /\ Len(bus[2 * k + 2].bytes) = 2
        /\ Len(crc_fed) = 16
        /\ crc_fed = [ImageBytes(bus) EXCEPT ![16] = 0]

\* A load read all its words from a PROM whose reserved word is not 0 and
\* rejected the checksum.
C10_Witness ==
    /\ ret.call = "read_prom"
    /\ ret.kind = "Panic"
    /\ Len(bus) = 16
    /\ bus[2].bytes # <<0, 0>>
    /\ Len(crc_fed) = 16

\* The coefficients C1..C6 of the datasheet's example.
DatasheetProm ==
    [pressure_sensitivity |-> 40127, pressure_offset |-> 36924,
     temp_coef_pressure_sensitivity |-> 23317,
     temp_coef_pressure_offset |-> 23282,
     temp_ref |-> 33464, temp_coef_temp |-> 28312]

\* The bus answered the two ADC reads of a measurement with the datasheet's
\* example values: D1 = 9085466 = 0x8AA21A, D2 = 8569150 = 0x82C13E.
DatasheetMeasurement ==
    /\ ret.call = "read"
    /\ prom = SomeProm(DatasheetProm)
    /\ Len(bus) = 8
    /\ NoTransportError(bus)
    /\ bus[4].bytes = <<138, 162, 26>>
    /\ bus[8].bytes = <<130, 193, 62>>

\* C11: with the datasheet's example coefficients C1 = 40127, C2 = 36924,
\* C3 = 23317, C4 = 23282, C5 = 33464, C6 = 28312 and the raw values
\* D1 = 9085466, D2 = 8569150, a measurement returns temperature 2007 and
\* pressure 100009, in a build with overflow checks and in one without.
C11_DatasheetExample ==
    DatasheetMeasurement =>
        /\ ret.kind = "Ok"
        /\ ret.temperature = Z(2007)
        /\ ret.pressure = Z(100009)
        /\ comp.d1 = Z(9085466)
        /\ comp.d2 = Z(8569150)

\* The datasheet's measurement was made, at the highest oversampling level,
\* in a build with overflow checks.
C11_Witness ==
    /\ DatasheetMeasurement
    /\ overflow_checks
    /\ ret.arg = Osr4096
    /\ ret.temperature = Z(2007)

(***************************************************************************)
(* read_prom's verdict on a 16-byte image, by the code's own functions.    *)
(***************************************************************************)
\* The k-th word of an image, as the two bytes of buf.
ImageWord(img, k) == <<img[2 * k + 1], img[2 * k + 2]>>

\* crc_check after the words k .. LastPromWord - 1 (lib.rs:95-127), crc being
\* its value before word k.  Each word's result is bound as a value.
RECURSIVE CrcOfWords(_, _, _)
CrcOfWords(img, k, crc) ==
    IF k = LastPromWord THEN crc
    ELSE CHOOSE r \in {CrcOfWords(img, k + 1, c) :
                           c \in {crc_accumulate_buf2(crc, ImageWord(img, k))}} :
             TRUE

\* The comparison of lib.rs:132-138, begun with crc_check = 0: no panic.
LoadAccepts(img) ==
    \E crc \in {CrcOfWords(img, 0, 0)} :
        crc_of_word(ImageWord(img, LastPromWord)) =
            crc_final(crc_accumulate_last(crc, ImageWord(img, LastPromWord)))

\* The image with bit j of its i-th byte flipped.
FlipBit(img, i, j) == [img EXCEPT ![i] = BitXor(@, 2 ^ j, 8)]

\* C12: starting from any image that a load accepts, flipping any single bit
\* among the bytes fed to the checksum (bytes 1..15 of the 16 read: the
\* checksum word's low byte is the 16th) makes the load reject the image.
C12_SingleBitFlipRejected ==
    LoadCompleted =>
        \A img \in {ImageBytes(bus)} :
            /\ (ret.kind = "Ok") <=> LoadAccepts(img)
            /\ ret.kind = "Ok" =>
                   \A i \in 1..15 : \A j \in 0..7 :
                       \A flipped \in {FlipBit(img, i, j)} :
                           ~LoadAccepts(flipped)

\* A load accepted an image whose reserved word and checksum word's high
\* byte are not 0.
C12_Witness ==
    /\ LoadCompleted
    /\ ret.kind = "Ok"
    /\ bus[2].bytes = <<18, 52>>
    /\ bus[16].bytes[1] = 171

\* The calibration-memory read commands: 0xA0 + 0, 2, .., 14.
PromCommands == {PromCommand(k) : k \in 0..LastPromWord}

\* Some write of the log carried a calibration-memory read command.
IssuesPromCommand(log) ==
    \E i \in 1..Len(log) :
        log[i].op = "write" /\ log[i].bytes[1] \in PromCommands

\* C13: once a load has succeeded, every step of a measurement or a reset,
\* succeeding or failing, leaves the six stored coefficients as they are and
\* the driver Calibrated, and the call's bus log holds no calibration-memory
\* read command; the coefficients change only in the step that ends a load
\* with Ok.
C13_CoefficientsKept ==
    [][/\ (prom.some /\ ret'.call \in {"read", "reset"}) =>
              /\ prom' = prom
              /\ ~IssuesPromCommand(bus')
       /\ prom' # prom =>
              /\ ret.call = "read_prom" /\ ret.kind = "running"
              /\ ret'.call = "read_prom" /\ ret'.kind = "Ok"]_vars

\* On a calibrated driver whose C5 and C6 are not the datasheet's, a reset
\* failed.
C13_Witness ==
    /\ ret.call = "reset"
    /\ ret.kind = "Err"
    /\ prom.some
    /\ prom.val.temp_ref = 65535
    /\ prom.val.temp_coef_temp = 65535

\* The command bytes of the device: reset, memory read, ADC read, and the
\* conversion starts of the two channels.
CommandBytes ==
    {30} \cup {160 + 2 * k : k \in 0..7} \cup {0}
        \cup {64, 66, 68, 70, 72} \cup {64 + 16, 66 + 16, 68 + 16, 70 + 16, 72 + 16}

\* C14: every bus write and read of a call was addressed to the device
\* address given at construction, and every write carried exactly one byte,
\* drawn from: reset 0x1E, memory read 0xA0 + {0, 2, .., 14}, ADC read 0x00,
\* an oversampling byte in {0x40, 0x42, 0x44, 0x46, 0x48}, or such a byte
\* plus 0x10.  The log starts anew at each call, so this holds of all calls.
C14_AddressAndCommands ==
    \A i \in 1..Len(bus) :
        /\ bus[i].op \in {"write", "read"} => bus[i].addr = address
        /\ bus[i].op = "write" =>
               Len(bus[i].bytes) = 1 /\ bus[i].bytes[1] \in CommandBytes

\* A driver built for address 0x77 started the temperature conversion at
\* the highest oversampling level and then read the ADC.
C14_Witness ==
    /\ address = 119
    /\ Len(bus) >= 8
    /\ bus[5].op = "write" /\ bus[5].bytes = <<88>> /\ bus[5].addr = 119
    /\ bus[8].op = "read" /\ bus[8].addr = 119

\* C15: across the five oversampling levels ordered by resolution (command
\* bytes 0x40, 0x42, 0x44, 0x46, 0x48), delay_ms is strictly increasing and
\* lies between 1 and 10 milliseconds inclusive, the five command bytes are
\* pairwise distinct, and these are the delays a measurement asks for.
C15_DelayTable ==
    /\ OversampleRatio = {64, 66, 68, 70, 72}
    /\ Cardinality(OversampleRatio) = 5
    /\ \A o \in OversampleRatio : delay_ms(o) \in 1..10
    /\ \A o1, o2 \in OversampleRatio : o1 < o2 => delay_ms(o1) < delay_ms(o2)
    /\ ret.call = "read" =>
           \A i \in 1..Len(bus) :
               bus[i].op = "delay" =>
                   bus[i].n = delay_ms(ret.arg) /\ bus[i].n \in 1..10

\* A measurement at Osr2048 asked for its two delays of 5 ms.
C15_Witness ==
    /\ ret.call = "read"
    /\ ret.arg = Osr2048
    /\ Len(bus) >= 6
    /\ bus[2].op = "delay" /\ bus[2].n = 5
    /\ bus[6].op = "delay" /\ bus[6].n = 5

\* C16: the driver starts without coefficients, and its coefficients change
\* only in the last step of a load in which all sixteen bus transactions
\* succeeded and the checksum matched, to exactly the six words C1..C6 that
\* this load read; so the stored coefficients are always absent or those of
\* one single accepted load, never those of a load cut short or rejected, nor
\* a mixture of two loads.
C16_CoefficientsOfOneLoad ==
    /\ ~prom.some
    /\ [][prom' # prom =>
              /\ ret.call = "read_prom" /\ ret.kind = "running"
              /\ ret'.call = "read_prom" /\ ret'.kind = "Ok"
              /\ Len(bus') = 16
              /\ NoTransportError(bus')
              /\ HeldChecksum(ImageBytes(bus')) = RefChecksum(ImageBytes(bus'))
              /\ prom' = SomeProm(CoefficientsOf(ImageBytes(bus')))]_vars

\* A second load, which had read a C5 other than the stored one, was cut
\* short by a transport error: the stored coefficients are the first load's.
C16_Witness ==
    /\ ret.call = "read_prom"
    /\ ret.kind = "Err"
    /\ prom.some
    /\ Len(bus) >= 13
    /\ bus[12].op = "read"
    /\ U16FromBe(bus[12].bytes) # prom.val.temp_ref

(***************************************************************************)
(* read_prom's locals on a driver just built, by the code's own functions. *)
(***************************************************************************)
\* crc_check and prom as declared (lib.rs:67-76).
FreshLocals == [crc |-> 0, prom |-> ZeroProm]

\* The locals after the words k .. n - 1 of an image (lib.rs:95-127), st being
\* their value before word k.  Each word's result is bound as a value.
RECURSIVE LocalsAfter(_, _, _, _)
LocalsAfter(img, k, n, st) ==
    IF k = n THEN st
    ELSE CHOOSE r \in
             {LocalsAfter(img, k + 1, n, t) :
                 t \in {[crc |-> crc_accumulate_buf2(st.crc, ImageWord(img, k)),
                         prom |-> StoreWord(st.prom, k,
                                            U16FromBe(ImageWord(img, k)))]}} :
             TRUE

\* C17: the outcome of a load depends only on the bytes and errors the bus
\* returns during that call.  At every point of a load, also of one that
\* follows loads that failed, the checksum register and the words collected
\* are those a driver just built would hold after the same bytes; a load
\* whose transactions all succeed returns Ok exactly if a driver just built
\* would accept its image, and stores the coefficients that one would store.
C17_LoadDependsOnItsOwnBytes ==
    ret.call = "read_prom" =>
        \A img \in {ImageBytes(bus)} :
            /\ ret.kind = "running" =>
                   /\ Len(img) = 2 * step
                   /\ \A st \in {LocalsAfter(img, 0, step, FreshLocals)} :
                          crc_check = st.crc /\ local_prom = st.prom
            /\ (ret.kind # "running" /\ NoTransportError(bus)) =>
                   /\ Len(img) = 16
                   /\ (ret.kind = "Ok") <=> LoadAccepts(img)
                   /\ ret.kind = "Ok" =>
                          \A st \in {LocalsAfter(img, 0, LastPromWord,
                                                 FreshLocals)} :
                              prom = SomeProm(st.prom)
            /\ (ret.kind # "running" /\ ~NoTransportError(bus)) =>
                   ret.kind = "Err" /\ ret.err = bus[Len(bus)].res

\* Right after a load that failed, a load of the datasheet's coefficients
\* behind a reserved word that is not 0 succeeded.
C17_Witness ==
    /\ retry
    /\ ret.call = "read_prom"
    /\ ret.kind = "Ok"
    /\ bus[2].bytes = <<18, 52>>
    /\ prom.val.temp_ref = 33464

\* The 24-bit big-endian value of three bytes.
Raw24(b) == b[1] * 65536 + b[2] * 256 + b[3]

\* C18: for any three bytes b0, b1, b2 the bus returns for a conversion
\* result, the raw value used in the compensation is
\* b0 * 65536 + b1 * 256 + b2 and lies in 0 .. 2^24 - 1, for the pressure
\* (the first ADC read) and for the temperature (the second), whatever the
\* bytes of the first were.
C18_RawValues ==
    (ReadCompensated /\ Len(bus) = 8) =>
        /\ comp.d1 = Z(Raw24(bus[4].bytes))
        /\ comp.d2 = Z(Raw24(bus[8].bytes))
        /\ ZLe(Z(0), comp.d1) /\ ZLt(comp.d1, ZPow2(24))
        /\ ZLe(Z(0), comp.d2) /\ ZLt(comp.d2, ZPow2(24))

\* A measurement whose pressure bytes were all 0xFF and whose temperature
\* bytes were all 0 went through the compensation.
C18_Witness ==
    /\ ReadCompensated
    /\ Len(bus) = 8
    /\ bus[4].bytes = <<255, 255, 255>>
    /\ bus[8].bytes = <<0, 0, 0>>
    /\ comp.d1 = Z(16777215)

\* The last call was a measurement on a driver without coefficients: it has
\* returned and its log of bus and delay events is empty.
UncalibratedReadDidNothing ==
    (ret.call = "read" /\ ~prom.some) =>
        /\ bus = <<>>
        /\ pc = "idle"
        /\ ret.kind # "running"

\* C19: a measurement called while the driver holds no coefficients issues
\* no bus write, no bus read and no delay call, returns at once, and leaves
\* the driver without coefficients: the step that makes the call changes
\* nothing but the call's result.
C19_UncalibratedReadTouchesNothing ==
    /\ UncalibratedReadDidNothing
    /\ [][/\ UncalibratedReadDidNothing'
          /\ (~prom.some /\ ret'.call = "read") =>
                 /\ ~prom'.some
                 /\ bus' = <<>>
                 /\ pc' = pc
                 /\ ret'.kind # "running"]_vars

\* A measurement at the highest oversampling level was called on a driver
\* for address 0x77 that held no coefficients; nothing was logged.
C19_Witness ==
    /\ ret.call = "read"
    /\ ret.arg = Osr4096
    /\ ~prom.some
    /\ bus = <<>>
    /\ address = 119
====
